---- MODULE Spec2Model ----
(***************************************************************************)
(* A model of the command-line client of clockodo (clockodo/__main__.py):  *)
(* the `entries` aggregation loop, the by-name lookups of `clock new`,     *)
(* `clock edit` and `projects`, `clock continue`, and the lazy paginator   *)
(* the listing calls are backed by.                                        *)
(*                                                                         *)
(* Python values are encoded as follows.  An optional value is a sequence  *)
(* of length 0 (None) or 1 (the value).  A time or a duration is an        *)
(* integer number of time units.                                           *)
(***************************************************************************)
EXTENDS Integers, Sequences, FiniteSets, TLC

\* ---------------------------------------------------------------- bounds
MaxEntries == 2      \* longest entry sequence iter_entries yields
MaxTime == 2         \* timestamps of entries are 0..MaxTime
MaxDur == 1          \* stored durations are 1..MaxDur
MaxNow == 3          \* the wall clock reads 0..MaxNow
MaxLen == 3          \* longest iterable handed to pairwise_with_last_none alone
MaxItem == 4         \* its items are 1..MaxItem
MaxPages == 2        \* pages the remote service holds for one listing
PageSize == 2        \* records on one page
MaxFetches == 3      \* fetches one paginate run may issue in the model
MaxCands == 3        \* customers, projects or services the service lists
MaxHist == 3         \* entries the service holds when clock continue runs
MaxDay == 1          \* clock continue runs on one of the days 0..MaxDay
TicksPerDay == 2     \* time units in a day

\* ---------------------------------------------------------------- helpers
NoneV == <<>>
Some(x) == <<x>>
IsNone(o) == o = <<>>
Opt(S) == {NoneV} \cup {Some(x) : x \in S}

SeqsUpTo(S, n) == UNION {[1..k -> S] : k \in 0..n}

Max2(a, b) == IF a >= b THEN a ELSE b

\* ------------------------------------------------- entries (the service's)
\* A ClockEntry has the attributes the loop reads.  An OtherEntry is opaque:
\* whether it exposes the ClockEntry attribute names is not decided in this
\* file, so both outcomes are modelled (attrs = TRUE: it does, with some
\* values; attrs = FALSE: reading one raises AttributeError).
ClockEntries ==
  {[kind |-> "clock", attrs |-> TRUE, time_since |-> s, time_until |-> u, duration |-> d] :
     s \in 0..MaxTime, u \in Opt(0..MaxTime), d \in Opt(1..MaxDur)}

OtherEntries ==
  {[kind |-> "other", attrs |-> TRUE, time_since |-> s, time_until |-> u, duration |-> d] :
     s \in 0..MaxTime, u \in Opt(0..MaxTime), d \in Opt(1..MaxDur)}
  \cup {[kind |-> "other", attrs |-> FALSE, time_since |-> 0, time_until |-> NoneV, duration |-> NoneV]}

\* The remote service never ends an entry before it starts.
WellFormedEntry(e) == IsNone(e.time_until) \/ e.time_until[1] >= e.time_since

Entries == {e \in ClockEntries \cup OtherEntries : WellFormedEntry(e)}

\* The service lists entries in ascending time_since.
Chronological(s) ==
  \A i \in 1..(Len(s) - 1) :
    (s[i].attrs /\ s[i + 1].attrs) => s[i].time_since <= s[i + 1].time_since

EntryLists == {s \in SeqsUpTo(Entries, MaxEntries) : Chronological(s)}

\* ------------------------------------------------- pairwise_with_last_none
\* itertools.tee: two independent iterators over the same items.
Tee(iterable) == <<iterable, iterable>>

\* next(it, None): advance by one item; the default swallows StopIteration.
NextOrDefault(it) == IF it = <<>> THEN it ELSE Tail(it)

\* itertools.zip_longest(a, b, fillvalue=None).  Each component of a pair is
\* an optional value: Some(item), or None where the iterator ran out.
ZipLongest(a, b) ==
  [i \in 1..Max2(Len(a), Len(b)) |->
     <<IF i <= Len(a) THEN Some(a[i]) ELSE NoneV,
       IF i <= Len(b) THEN Some(b[i]) ELSE NoneV>>]

\* A slip: the peek iterator is zipped with zip(), which stops at the shorter.
PairwiseShortest(iterable) ==
  LET t == Tee(iterable)
      peek == NextOrDefault(t[2])
  IN [i \in 1..Len(peek) |-> <<Some(t[1][i]), Some(peek[i])>>]

pairwise_with_last_none(iterable) ==
  LET t == Tee(iterable)
      main == t[1]
      peek == NextOrDefault(t[2])
  IN ZipLongest(main, peek)

\* ---------------------------------------------------------------- state
VARIABLES
  ePc,          \* entries: "start" | "loop" | "done" | "raised"
  eIn,          \* what api.iter_entries(time_since, time_until) yields
  ePairs,       \* the pairs the for loop runs over
  eIdx,         \* index of the pair the loop handles next
  eNow,         \* the latest reading of the wall clock
  eReads,       \* per handled entry: the clock reading it used, if any
  total_work_time,
  total_break_duration,
  break_count,
  eLines        \* what click.echo printed, as <<kind, value>>

eVars == <<ePc, eIn, ePairs, eIdx, eNow, eReads, total_work_time,
           total_break_duration, break_count, eLines>>

VARIABLES
  pwPc,         \* pairwise_with_last_none alone: "start" | "done"
  pwIn,         \* the iterable
  pwOut         \* the pairs it yields

pwVars == <<pwPc, pwIn, pwOut>>

VARIABLES
  pPc,          \* paginate alone: "run" | "done"
  pData,        \* the pages the fetch function serves
  pGen,         \* the generator's state
  pOut          \* the records it has yielded

pVars == <<pPc, pData, pGen, pOut>>

VARIABLES
  rCmd,         \* "new" | "edit" | "projects"
  rArgs,        \* the options as given on the command line
  rEnv,         \* the function's variables (new, projects) or kwargs (edit)
  rPc,          \* where the command is
  rScan,        \* the by-name lookup in progress or just ended
  rData,        \* the pages the service serves for that lookup
  rGen,         \* the listing generator of that lookup
  rCalls,       \* the calls made on the api object, in order
  rEcho,        \* what click.echo printed
  rExc          \* the exception that ended the command, if one did

rVars == <<rCmd, rArgs, rEnv, rPc, rScan, rData, rGen, rCalls, rEcho, rExc>>

VARIABLES
  cPc,          \* clock continue: where the command is
  cRunning,     \* whether api.current_clock() finds a running clock
  cSvc,         \* the entries the service holds, in ascending time_since
  cToday,       \* the local date when the command starts
  cSince,       \* time_since, once computed
  cUntil,       \* time_until, once computed
  cLast,        \* last, once unpacked
  cStarted,     \* the entries a start request was issued for
  cEcho,        \* what click.echo printed
  cExc          \* the exception that ended the command, if one did

cVars == <<cPc, cRunning, cSvc, cToday, cSince, cUntil, cLast, cStarted, cEcho, cExc>>

vars == <<eVars, pwVars, pVars, rVars, cVars>>

NotEntries == <<pwVars, pVars, rVars, cVars>>
NotPairwise == <<eVars, pVars, rVars, cVars>>
NotPaginate == <<eVars, pwVars, rVars, cVars>>
NotResolve == <<eVars, pwVars, pVars, cVars>>
NotContinue == <<eVars, pwVars, pVars, rVars>>

EntriesIdle ==
  /\ ePc = "idle" /\ eIn = <<>> /\ ePairs = <<>> /\ eIdx = 1 /\ eNow = 0
  /\ eReads = <<>> /\ total_work_time = 0 /\ total_break_duration = 0
  /\ break_count = 0 /\ eLines = <<>>

PairwiseIdle == pwPc = "idle" /\ pwIn = <<>> /\ pwOut = <<>>

\* ------------------------------------------------------------ paginate
\* A page: its records and its optional paging metadata.
Paging(cur, cnt) == [current_page |-> cur, count_pages |-> cnt]
Page(recs, pg) == [records |-> recs, paging |-> pg]

\* What the service answers for a page index it holds no page for.
EmptyPage(k, n) == Page(<<>>, Some(Paging(k, n)))

\* fetch_page(page_index): None asks for the first page.
Fetch(data, req) ==
  LET k == IF IsNone(req) THEN 1 ELSE req[1]
  IN IF k \in 1..Len(data) THEN data[k] ELSE EmptyPage(k, Len(data))

\* The generator before its first next().
GenInit ==
  [started |-> FALSE, more |-> TRUE, req |-> NoneV, count |-> NoneV,
   buf |-> <<>>, fetches |-> <<>>]

\* The stop condition taken alone, without the edge case of an empty page.
PageStopsNoEdge(page, count) ==
  \/ IsNone(page.paging)
  \/ page.paging[1].current_page = count[1]

\* Whether the sequence ends with this page; count is the first page's
\* count_pages.
PageStops(page, count) ==
  \/ IsNone(page.paging)
  \/ page.paging[1].count_pages = 0
  \/ page.records = <<>>
  \/ page.paging[1].current_page = count[1]

\* A slip: the next request repeats the page just read.
NextRequestSame(page) == page.paging[1].current_page

NextRequest(page) == page.paging[1].current_page + 1

GenNeedsFetch(g) == g.buf = <<>> /\ g.more
GenExhausted(g) == g.buf = <<>> /\ ~g.more

\* One fetch: the page's records become the buffer.
GenFetch(data, g) ==
  LET page == Fetch(data, g.req)
      count == IF g.started THEN g.count
               ELSE IF IsNone(page.paging) THEN NoneV
               ELSE Some(page.paging[1].count_pages)
      stops == PageStops(page, count)
  IN [started |-> TRUE,
      more |-> ~stops,
      req |-> IF stops THEN g.req ELSE Some(NextRequest(page)),
      count |-> count,
      buf |-> page.records,
      fetches |-> Append(g.fetches, g.req)]

\* One yield: the head of the buffer.
GenYield(g) == [g EXCEPT !.buf = Tail(g.buf)]

\* The records of page i of a listing, told apart by page and position.
Recs(i, n) == [j \in 1..n |-> <<i, j>>]

PagingChoices == Opt({Paging(c, n) : c \in 0..MaxPages, n \in 0..MaxPages})

PageLists ==
  UNION {{[i \in 1..k |-> Page(Recs(i, lens[i]), pgs[i])] :
            lens \in [1..k -> 0..PageSize], pgs \in [1..k -> PagingChoices]} :
         k \in 0..MaxPages}

PaginateIdle == pPc = "idle" /\ pData = <<>> /\ pGen = GenInit /\ pOut = <<>>

PaginateInit ==
  /\ pPc = "run"
  /\ pData \in PageLists
  /\ pGen = GenInit
  /\ pOut = <<>>

PaginateFetch ==
  /\ pPc = "run"
  /\ GenNeedsFetch(pGen)
  /\ Len(pGen.fetches) < MaxFetches
  /\ pGen' = GenFetch(pData, pGen)
  /\ UNCHANGED <<pPc, pData, pOut, NotPaginate>>

PaginateYield ==
  /\ pPc = "run"
  /\ pGen.buf # <<>>
  /\ pOut' = Append(pOut, Head(pGen.buf))
  /\ pGen' = GenYield(pGen)
  /\ UNCHANGED <<pPc, pData, NotPaginate>>

PaginateStop ==
  /\ pPc = "run"
  /\ GenExhausted(pGen)
  /\ pPc' = "done"
  /\ UNCHANGED <<pData, pGen, pOut, NotPaginate>>

PaginateNext == PaginateFetch \/ PaginateYield \/ PaginateStop


\* ------------------------------------------------------ the entries command
EntriesInit ==
  /\ ePc = "start"
  /\ eIn \in EntryLists
  /\ ePairs = <<>>
  /\ eIdx = 1
  /\ eNow = 0
  /\ eReads = <<>>
  /\ total_work_time = 0
  /\ total_break_duration = 0
  /\ break_count = 0
  /\ eLines = <<>>

\* lines 337-340
EntriesBegin ==
  /\ ePc = "start"
  /\ ePairs' = pairwise_with_last_none(eIn)
  /\ total_work_time' = 0
  /\ total_break_duration' = 0
  /\ break_count' = 0
  /\ ePc' = "loop"
  /\ UNCHANGED <<eIn, eIdx, eNow, eReads, eLines, NotEntries>>

\* line 350
BreakDuration(entry, next_entry) == next_entry[1].time_since - entry.time_until[1]

\* line 348
HasBreak(entry, next_entry) == ~IsNone(entry.time_until) /\ ~IsNone(next_entry)

\* line 352
\* A slip: a gap of zero is reported as a break.
IsReportedBreakGeq(d) == d >= 0

IsReportedBreak(d) == d > 0

\* One iteration of the for loop, lines 341-354.  clock_entry_cb reads
\* entry.customer first: an opaque entry raises there.
EntriesStep ==
  /\ ePc = "loop"
  /\ eIdx <= Len(ePairs)
  /\ LET entry == ePairs[eIdx][1][1]
         next_entry == ePairs[eIdx][2]
     IN IF ~entry.attrs
        THEN /\ ePc' = "raised"
             /\ UNCHANGED <<eIn, ePairs, eIdx, eNow, eReads, total_work_time,
                            total_break_duration, break_count, eLines>>
        ELSE \E t \in eNow..MaxNow :
             LET read == IsNone(entry.duration)
                 work == IF read THEN t - entry.time_since ELSE entry.duration[1]
                 gap == HasBreak(entry, next_entry)
             IN /\ (~read => t = eNow)
                /\ eNow' = t
                /\ eReads' = Append(eReads, IF read THEN Some(t) ELSE NoneV)
                /\ total_work_time' = total_work_time + work
                /\ IF gap /\ ~next_entry[1].attrs
                   THEN \* next_entry.time_since raises
                        /\ ePc' = "raised"
                        /\ eLines' = Append(eLines, <<"entry", eIdx>>)
                        /\ UNCHANGED <<eIdx, total_break_duration, break_count>>
                   ELSE /\ ePc' = "loop"
                        /\ eIdx' = eIdx + 1
                        /\ IF gap
                           THEN LET break_duration == BreakDuration(entry, next_entry)
                                IN /\ total_break_duration' = total_break_duration + break_duration
                                   /\ IF IsReportedBreak(break_duration)
                                      THEN /\ break_count' = break_count + 1
                                           /\ eLines' = eLines \o <<<<"entry", eIdx>>, <<"break", break_duration>>>>
                                      ELSE /\ break_count' = break_count
                                           /\ eLines' = Append(eLines, <<"entry", eIdx>>)
                           ELSE /\ eLines' = Append(eLines, <<"entry", eIdx>>)
                                /\ UNCHANGED <<total_break_duration, break_count>>
                /\ UNCHANGED <<eIn, ePairs>>
  /\ UNCHANGED NotEntries

\* lines 356-360
EntriesFinish ==
  /\ ePc = "loop"
  /\ eIdx > Len(ePairs)
  /\ ePc' = "done"
  /\ eLines' = eLines \o <<<<"work", total_work_time>>, <<"breaks", break_count>>,
                          <<"break_total", total_break_duration>>>>
  /\ UNCHANGED <<eIn, ePairs, eIdx, eNow, eReads, total_work_time,
                 total_break_duration, break_count, NotEntries>>

EntriesNext == EntriesBegin \/ EntriesStep \/ EntriesFinish


\* --------------------------------------- pairwise_with_last_none on its own
PairwiseInit ==
  /\ pwPc = "start"
  /\ pwIn \in SeqsUpTo(1..MaxItem, MaxLen)
  /\ pwOut = <<>>

\* list(pairwise_with_last_none(iterable))
PairwiseRun ==
  /\ pwPc = "start"
  /\ pwOut' = pairwise_with_last_none(pwIn)
  /\ pwPc' = "done"
  /\ UNCHANGED <<pwIn, NotPairwise>>

PairwiseNext == PairwiseRun


\* ------------------------------------------------ by-name lookups (commands)
\* Python values the commands juggle: None, an int, a str, an object of the
\* client library (a Customer, Project or Service with its id), and the mark
\* of a key that is not in kwargs.
PyNone == [t |-> "none", s |-> "", n |-> 0]
PyInt(i) == [t |-> "int", s |-> "", n |-> i]
PyStr(x) == [t |-> "str", s |-> x, n |-> 0]
PyObj(kind, id) == [t |-> "obj", s |-> kind, n |-> id]
Absent == [t |-> "absent", s |-> "", n |-> 0]

Kinds == {"customer", "project", "service"}
IdOption(kind) ==
  CASE kind = "customer" -> "customer_id"
    [] kind = "project" -> "project_id"
    [] kind = "service" -> "service_id"
\* The field names of the service's API that edit_clock fills in.
ApiField(kind) ==
  CASE kind = "customer" -> "customers_id"
    [] kind = "project" -> "projects_id"
    [] kind = "service" -> "services_id"
Keys == Kinds \cup {IdOption(k) : k \in Kinds} \cup {ApiField(k) : k \in Kinds}

\* The names the service's objects carry, and the ones asked for.
Names == {"x", "X", "y"}
AskedName == "x"
AskedId == 9

\* kwargs.get(key)
Get(env, key) == IF env[key] = Absent THEN PyNone ELSE env[key]

\* The listing of one kind: candidates with ids 1..n, served PageSize a page
\* with consistent metadata.
Candidate(i, name) == [id |-> i, name |-> PyStr(name)]
PageCount(n) == (n + PageSize - 1) \div PageSize
Listing(names) ==
  LET n == Len(names)
  IN [p \in 1..PageCount(n) |->
        Page([j \in 1..(IF p * PageSize <= n THEN PageSize ELSE n - (p - 1) * PageSize) |->
                Candidate((p - 1) * PageSize + j, names[(p - 1) * PageSize + j])],
             Some(Paging(p, PageCount(n))))]
NameLists == SeqsUpTo(Names, MaxCands)

\* api.get_customer(id) and its siblings: the object with that id, or an
\* error of the service.  Handed something that is not an int, the service's
\* answer is not decided here: an error, or some object.
Raises == [t |-> "raise", s |-> "ApiError", n |-> 0]
ApiGet(kind, arg) ==
  IF arg.t = "int" THEN {PyObj(kind, arg.n), Raises} ELSE {PyObj(kind, 0), Raises}

\* c.name == customer, as Python compares a str with a str or an int
\* A slip: the comparison ignores case.
Lower(x) == IF x = "X" THEN "x" ELSE x
NameMatchesIgnoringCase(c, query) ==
  c.name.t = query.t /\ Lower(c.name.s) = Lower(query.s) /\ c.name.n = query.n

NameMatches(c, query) == c.name = query

ScanIdle == [kind |-> "", query |-> PyNone, status |-> "none", n |-> 0]

ResolveIdle ==
  /\ rCmd = "" /\ rArgs = <<>> /\ rEnv = <<>> /\ rPc = "idle" /\ rScan = ScanIdle
  /\ rData = <<>> /\ rGen = GenInit /\ rCalls = <<>> /\ rEcho = <<>> /\ rExc = ""

\* new: --customer, --project, --service are str options, the ids are int.
\* edit: --customer, --project, --service are int options and only
\* --customer-id exists besides them.  projects: --customer str, --customer-id.
OptionChoices(cmd, key) ==
  IF key \in Kinds
  THEN IF cmd = "edit" THEN {PyNone, PyInt(1)}
       ELSE IF cmd = "projects" /\ key # "customer" THEN {Absent}
       ELSE {PyNone, PyStr(AskedName)}
  ELSE IF key \in {IdOption(k) : k \in Kinds}
  THEN IF cmd = "new" \/ key = "customer_id" THEN {PyNone, PyInt(AskedId)} ELSE {Absent}
  ELSE {Absent}

ArgChoices(cmd) == {a \in [Keys -> {PyNone, PyInt(1), PyInt(AskedId), PyStr(AskedName), Absent}] :
                      \A k \in Keys : a[k] \in OptionChoices(cmd, k)}

ResolveInit ==
  /\ rCmd \in {"new", "edit", "projects"}
  /\ rArgs \in ArgChoices(rCmd)
  /\ rEnv = rArgs
  /\ rPc = IF rCmd = "edit" THEN "begin" ELSE "customer"
  /\ rScan = ScanIdle
  /\ rData = <<>>
  /\ rGen = GenInit
  /\ rCalls = <<>>
  /\ rEcho = <<>>
  /\ rExc = ""

Call(fn, arg) == [fn |-> fn, arg |-> arg]
GetFn(kind) ==
  CASE kind = "customer" -> "get_customer"
    [] kind = "project" -> "get_project"
    [] kind = "service" -> "get_service"
ListFn(kind) ==
  CASE kind = "customer" -> "iter_customers"
    [] kind = "project" -> "iter_projects"
    [] kind = "service" -> "iter_services"

\* Where a command goes once a field is settled.
AfterField(cmd, kind) ==
  IF cmd = "projects" THEN "final"
  ELSE CASE kind = "customer" -> "project"
         [] kind = "project" -> "service"
         [] kind = "service" -> "final"

\* The end of a lookup, a field settled without one, leaves no scan behind.
NoScan == rScan' = ScanIdle /\ rData' = <<>> /\ rGen' = GenInit

\* with click.progressbar(api.iter_...(), ...) as bar: for c in bar:
StartScan(kind, query) ==
  /\ rScan' = [kind |-> kind, query |-> query, status |-> "running", n |-> 0]
  /\ \E names \in NameLists : rData' = Listing(names)
  /\ rGen' = GenInit
  /\ rPc' = "scan"
  /\ UNCHANGED <<rEnv, rCalls, rEcho, rExc>>

Crash(exc) == rPc' = "crashed" /\ rExc' = exc

\* value = api.get_...(arg), the call raising or returning
GetInto(kind, arg, next) ==
  /\ rCalls' = Append(rCalls, Call(GetFn(kind), arg))
  /\ \E r \in ApiGet(kind, arg) :
       IF r = Raises
       THEN Crash("ApiError") /\ UNCHANGED rEnv
       ELSE rEnv' = [rEnv EXCEPT ![kind] = r] /\ rPc' = next /\ UNCHANGED rExc
  /\ NoScan
  /\ UNCHANGED rEcho

Usage(kind) == [what |-> "usage", kind |-> kind, name |-> PyNone]
NotFound(kind, name) == [what |-> "notfound", kind |-> kind, name |-> name]

Exit1(msg) ==
  /\ rEcho' = Append(rEcho, msg)
  /\ rPc' = "exit1"
  /\ UNCHANGED <<rEnv, rCalls, rExc>>

\* lines 161-174
NewCustomer ==
  /\ rCmd = "new" /\ rPc = "customer"
  /\ IF rEnv["customer_id"] # PyNone
     THEN GetInto("customer", rEnv["customer_id"], "project")
     ELSE IF rEnv["customer"] # PyNone
     THEN StartScan("customer", rEnv["customer"])
     ELSE Exit1(Usage("customer")) /\ NoScan
  /\ UNCHANGED <<rCmd, rArgs, NotResolve>>

\* line 177: the argument of api.get_project
NewProjectGetArg(env) == env["project"]

\* lines 176-188
NewProject ==
  /\ rCmd = "new" /\ rPc = "project"
  /\ IF rEnv["project_id"] # PyNone
     THEN GetInto("project", NewProjectGetArg(rEnv), "service")
     ELSE IF rEnv["project"] # PyNone
     THEN StartScan("project", rEnv["project"])
     ELSE /\ rEnv' = [rEnv EXCEPT !["project"] = PyNone]
          /\ rPc' = "service"
          /\ NoScan
          /\ UNCHANGED <<rCalls, rEcho, rExc>>
  /\ UNCHANGED <<rCmd, rArgs, NotResolve>>

\* lines 190-203
NewService ==
  /\ rCmd = "new" /\ rPc = "service"
  /\ IF rEnv["service_id"] # PyNone
     THEN GetInto("service", rEnv["service_id"], "final")
     ELSE IF rEnv["service"] # PyNone
     THEN StartScan("service", rEnv["service"])
     ELSE Exit1(Usage("service")) /\ NoScan
  /\ UNCHANGED <<rCmd, rArgs, NotResolve>>

IsObj(v, kind) == v.t = "obj" /\ v.s = kind

\* lines 205-217: the asserts, then ClockEntry(...).start()
NewStart ==
  /\ rCmd = "new" /\ rPc = "final"
  /\ IF /\ IsObj(rEnv["customer"], "customer")
        /\ IsObj(rEnv["service"], "service")
        /\ (rEnv["project"] = PyNone \/ IsObj(rEnv["project"], "project"))
     THEN /\ rCalls' = Append(rCalls, Call("start", PyNone))
          /\ rPc' = "started"
          /\ UNCHANGED rExc
     ELSE Crash("AssertionError") /\ UNCHANGED rCalls
  /\ NoScan
  /\ UNCHANGED <<rCmd, rArgs, rEnv, rEcho, NotResolve>>

\* line 230: clock = api.current_clock()
EditBegin ==
  /\ rCmd = "edit" /\ rPc = "begin"
  /\ rCalls' = Append(rCalls, Call("current_clock", PyNone))
  /\ rPc' = "customer"
  /\ UNCHANGED <<rCmd, rArgs, rEnv, rScan, rData, rGen, rEcho, rExc, NotResolve>>

\* lines 231-243, 245-257, 259-271: one field of edit_clock
EditField(kind) ==
  /\ rCmd = "edit" /\ rPc = kind
  /\ IF Get(rEnv, IdOption(kind)) # PyNone
     THEN /\ rEnv' = [rEnv EXCEPT ![ApiField(kind)] = rEnv[IdOption(kind)],
                                  ![IdOption(kind)] = Absent]
          /\ rPc' = AfterField("edit", kind)
          /\ NoScan
          /\ UNCHANGED <<rCalls, rEcho, rExc>>
     ELSE IF Get(rEnv, kind) # PyNone
     THEN StartScan(kind, rEnv[kind])
     ELSE /\ rPc' = AfterField("edit", kind)
          /\ NoScan
          /\ UNCHANGED <<rEnv, rCalls, rEcho, rExc>>
  /\ UNCHANGED <<rCmd, rArgs, NotResolve>>

EditCustomer == EditField("customer")
EditProject == EditField("project")
EditService == EditField("service")

\* line 273: clock.edit(kwargs)
EditFinish ==
  /\ rCmd = "edit" /\ rPc = "final"
  /\ rCalls' = Append(rCalls, Call("edit", PyNone))
  /\ \E ok \in BOOLEAN :
       IF ok THEN rPc' = "edited" /\ UNCHANGED rExc
       ELSE Crash("AttributeError")   \* no clock is running: clock is None
  /\ NoScan
  /\ UNCHANGED <<rCmd, rArgs, rEnv, rEcho, NotResolve>>

\* lines 290-300
ProjectsCustomer ==
  /\ rCmd = "projects" /\ rPc = "customer"
  /\ IF rEnv["customer_id"] # PyNone
     THEN GetInto("customer", rEnv["customer_id"], "final")
     ELSE IF rEnv["customer"] # PyNone
     THEN StartScan("customer", rEnv["customer"])
     ELSE /\ rPc' = "final"
          /\ NoScan
          /\ UNCHANGED <<rEnv, rCalls, rEcho, rExc>>
  /\ UNCHANGED <<rCmd, rArgs, NotResolve>>

\* lines 302-303
ProjectsList ==
  /\ rCmd = "projects" /\ rPc = "final"
  /\ rCalls' = Append(rCalls, Call("print_projects", rEnv["customer"]))
  /\ rPc' = "listed"
  /\ NoScan
  /\ UNCHANGED <<rCmd, rArgs, rEnv, rEcho, rExc, NotResolve>>

\* The for loop asks the generator for an item it has to fetch a page for.
ScanFetch ==
  /\ rPc = "scan"
  /\ GenNeedsFetch(rGen)
  /\ rCalls' = Append(rCalls, Call(ListFn(rScan.kind), IF IsNone(rGen.req) THEN PyNone ELSE PyInt(rGen.req[1])))
  /\ rGen' = GenFetch(rData, rGen)
  /\ UNCHANGED <<rCmd, rArgs, rEnv, rPc, rScan, rData, rEcho, rExc, NotResolve>>

\* What a match assigns: the object (new, projects), its id (edit).
AssignMatch(cmd, kind, c, env) ==
  IF cmd = "edit"
  THEN [env EXCEPT ![ApiField(kind)] = PyInt(c.id), ![kind] = Absent]
  ELSE [env EXCEPT ![kind] = PyObj(kind, c.id)]

\* One iteration of the for loop: the if, the assignment and the break.
ScanNext ==
  /\ rPc = "scan"
  /\ rGen.buf # <<>>
  /\ LET c == Head(rGen.buf)
     IN /\ rGen' = GenYield(rGen)
        /\ IF NameMatches(c, rScan.query)
           THEN /\ rEnv' = AssignMatch(rCmd, rScan.kind, c, rEnv)
                /\ rScan' = [rScan EXCEPT !.status = "hit", !.n = @ + 1]
                /\ rPc' = AfterField(rCmd, rScan.kind)
           ELSE /\ rScan' = [rScan EXCEPT !.n = @ + 1]
                /\ UNCHANGED <<rEnv, rPc>>
  /\ UNCHANGED <<rCmd, rArgs, rData, rCalls, rEcho, rExc, NotResolve>>

\* How the else branch of the for loop ends, by command and kind:
\*   "exit1": the message is printed, then exit(1)
\*   an exception's name: building or printing the message raises it
\* line 185 hands the name to click.echo as its file argument, whose write()
\* a str has not; lines 242, 256 and 270 name variables edit_clock has not.
ElseBranch(cmd, kind) ==
  IF cmd = "edit" THEN "NameError"
  ELSE IF cmd = "new" /\ kind = "project" THEN "AttributeError"
  ELSE "exit1"

\* The for loop's else branch: the listing is exhausted.
ScanExhausted ==
  /\ rPc = "scan"
  /\ GenExhausted(rGen)
  /\ rScan' = [rScan EXCEPT !.status = "miss"]
  /\ IF ElseBranch(rCmd, rScan.kind) = "exit1"
     THEN Exit1(NotFound(rScan.kind, rScan.query))
     ELSE Crash(ElseBranch(rCmd, rScan.kind)) /\ UNCHANGED <<rEnv, rCalls, rEcho>>
  /\ UNCHANGED <<rCmd, rArgs, rData, rGen, NotResolve>>

ResolveNext ==
  \/ NewCustomer \/ NewProject \/ NewService \/ NewStart
  \/ EditBegin \/ EditCustomer \/ EditProject \/ EditService \/ EditFinish
  \/ ProjectsCustomer \/ ProjectsList
  \/ ScanFetch \/ ScanNext \/ ScanExhausted

\* ------------------------------------------------------- clock continue
\* An entry of the service's history: its id, its kind, its start.
HistEntry(i, kind, t) == [id |-> i, kind |-> kind, time_since |-> t]

LastTick == (MaxDay + 2) * TicksPerDay - 1

Histories ==
  UNION {{[i \in 1..k |-> HistEntry(i, kinds[i], times[i])] :
            kinds \in [1..k -> {"clock", "other"}],
            times \in {t \in [1..k -> 0..LastTick] : \A i \in 1..(k - 1) : t[i] <= t[i + 1]}} :
         k \in 0..MaxHist}

\* datetime.combine(day, time(0, tzinfo=our_tz()))
Midnight(day) == day * TicksPerDay

\* api.iter_entries(time_since, time_until): the entries that start in the
\* window, in the service's order.
IterEntries(svc, time_since, time_until) ==
  SelectSeq(svc, LAMBDA e : time_since <= e.time_since /\ e.time_since < time_until)

\* A slip: the first entry of the window is taken.
FirstOf(seq) == seq[1]

\* *_, last = ...
LastOf(seq) == seq[Len(seq)]

ContinueIdle ==
  /\ cPc = "idle" /\ cRunning = FALSE /\ cSvc = <<>> /\ cToday = 0 /\ cSince = NoneV
  /\ cUntil = NoneV /\ cLast = NoneV /\ cStarted = <<>> /\ cEcho = <<>> /\ cExc = ""

ContinueInit ==
  /\ cPc = "begin"
  /\ cRunning \in BOOLEAN
  /\ cSvc \in Histories
  /\ cToday \in 0..MaxDay
  /\ cSince = NoneV
  /\ cUntil = NoneV
  /\ cLast = NoneV
  /\ cStarted = <<>>
  /\ cEcho = <<>>
  /\ cExc = ""

\* lines 126-129
ContinueCheckRunning ==
  /\ cPc = "begin"
  /\ IF cRunning
     THEN cEcho' = Append(cEcho, "already clocked in") /\ cPc' = "exit1"
     ELSE cPc' = "window" /\ UNCHANGED cEcho
  /\ UNCHANGED <<cRunning, cSvc, cToday, cSince, cUntil, cLast, cStarted, cExc, NotContinue>>

\* lines 132-139: date.today() is read twice; midnight may pass in between.
ContinueWindow ==
  /\ cPc = "window"
  /\ \E today2 \in {cToday, cToday + 1} :
       /\ cSince' = Some(Midnight(cToday))
       /\ cUntil' = Some(Midnight(today2 + 1))
  /\ cPc' = "unpack"
  /\ UNCHANGED <<cRunning, cSvc, cToday, cLast, cStarted, cEcho, cExc, NotContinue>>

\* line 142
ContinueUnpack ==
  /\ cPc = "unpack"
  /\ LET found == IterEntries(cSvc, cSince[1], cUntil[1])
     IN IF found = <<>>
        THEN cPc' = "crashed" /\ cExc' = "ValueError" /\ UNCHANGED cLast
        ELSE cPc' = "check" /\ cLast' = Some(LastOf(found)) /\ UNCHANGED cExc
  /\ UNCHANGED <<cRunning, cSvc, cToday, cSince, cUntil, cStarted, cEcho, NotContinue>>

\* lines 144-148
ContinueStart ==
  /\ cPc = "check"
  /\ IF cLast[1].kind # "clock"
     THEN /\ cEcho' = Append(cEcho, "not a clock entry")
          /\ cPc' = "exit1"
          /\ UNCHANGED cStarted
     ELSE /\ cStarted' = Append(cStarted, cLast[1])
          /\ cEcho' = Append(cEcho, "entry")
          /\ cPc' = "started"
  /\ UNCHANGED <<cRunning, cSvc, cToday, cSince, cUntil, cLast, cExc, NotContinue>>

ContinueNext ==
  ContinueCheckRunning \/ ContinueWindow \/ ContinueUnpack \/ ContinueStart

\* ---------------------------------------------------------- specifications
InitEntries == EntriesInit /\ PairwiseIdle /\ PaginateIdle /\ ResolveIdle /\ ContinueIdle

SpecEntries == InitEntries /\ [][EntriesNext]_vars

InitPairwise == PairwiseInit /\ EntriesIdle /\ PaginateIdle /\ ResolveIdle /\ ContinueIdle

SpecPairwise == InitPairwise /\ [][PairwiseNext]_vars

InitPaginate == PaginateInit /\ EntriesIdle /\ PairwiseIdle /\ ResolveIdle /\ ContinueIdle

SpecPaginate == InitPaginate /\ [][PaginateNext]_vars

\* The generator is driven by a for loop, which keeps asking for items.
SpecPaginateLive == SpecPaginate /\ WF_vars(PaginateNext)

InitResolve == ResolveInit /\ EntriesIdle /\ PairwiseIdle /\ PaginateIdle /\ ContinueIdle

SpecResolve == InitResolve /\ [][ResolveNext]_vars

InitContinue == ContinueInit /\ EntriesIdle /\ PairwiseIdle /\ PaginateIdle /\ ResolveIdle

SpecContinue == InitContinue /\ [][ContinueNext]_vars

\* ================================================================ claims
RECURSIVE ClockWork(_)
\* The work time of the first n entries, counting ClockEntry items only: the
\* stored duration, or the clock reading taken for the entry minus its start.
ClockWork(n) ==
  IF n = 0 THEN 0
  ELSE ClockWork(n - 1) +
       (IF eIn[n].kind # "clock" THEN 0
        ELSE IF ~IsNone(eIn[n].duration) THEN eIn[n].duration[1]
        ELSE eReads[n][1] - eIn[n].time_since)

\* C1: when the entries command has printed its totals, total_work_time is the
\* sum over the ClockEntry items of the stored duration where present and of
\* now - time_since where it is absent.
C1_WorkIsSumOverClockEntries ==
  ePc = "done" => total_work_time = ClockWork(Len(eIn))

\* The gap after entry i, where the code computes one.
GapAt(i) == eIn[i + 1].time_since - eIn[i].time_until[1]
GapExists(i) == i < Len(eIn) /\ ~IsNone(eIn[i].time_until)

RECURSIVE GapSum(_)
GapSum(n) == IF n = 0 THEN 0 ELSE GapSum(n - 1) + (IF GapExists(n) THEN GapAt(n) ELSE 0)

GapsReported(n) == {i \in 1..n : GapExists(i) /\ GapAt(i) > 0}

BreakLines == SelectSeq(eLines, LAMBDA l : l[1] = "break")

C3_PairwiseShape ==
  pwPc = "done" =>
    /\ Len(pwOut) = Len(pwIn)
    /\ \A i \in 1..Len(pwIn) : pwOut[i][1] = Some(pwIn[i])
    /\ \A i \in 1..(Len(pwIn) - 1) : pwOut[i][2] = Some(pwIn[i + 1])
    /\ Len(pwIn) > 0 => pwOut[Len(pwIn)][2] = NoneV

C3_Witness == pwPc = "done" /\ Len(pwIn) = 3 /\ Len(pwOut) = 3

BothClock(i) == eIn[i].kind = "clock" /\ eIn[i + 1].kind = "clock"

RECURSIVE ClockGapSum(_)
ClockGapSum(n) ==
  IF n = 0 THEN 0
  ELSE ClockGapSum(n - 1) +
       (IF n < Len(eIn) /\ BothClock(n) /\ GapExists(n) THEN GapAt(n) ELSE 0)

ClockGapsReported(n) ==
  {i \in 1..n : i < Len(eIn) /\ BothClock(i) /\ GapExists(i) /\ GapAt(i) > 0}

\* C4: an OtherEntry never makes the loop raise, and the three totals are
\* those of the arithmetic with every OtherEntry left out.
C4_OtherEntryExcluded ==
  /\ ePc # "raised"
  /\ ePc = "done" =>
       /\ total_work_time = ClockWork(Len(eIn))
       /\ total_break_duration = ClockGapSum(Len(eIn))
       /\ break_count = Cardinality(ClockGapsReported(Len(eIn)))

\* ------------------------------------------------------- paginate's claims
\* Page i of n says so in its metadata.
Consistent(data) ==
  \A i \in 1..Len(data) : data[i].paging = Some(Paging(i, Len(data)))

RECURSIVE AllRecords(_, _)
AllRecords(data, n) ==
  IF n = 0 THEN <<>> ELSE AllRecords(data, n - 1) \o data[n].records

IsPrefix(a, b) == Len(a) <= Len(b) /\ a = SubSeq(b, 1, Len(a))

\* fetch_page(None), then fetch_page(2), ..., fetch_page(n)
ExpectedFetches(n) == [i \in 1..Max2(n, 1) |-> IF i = 1 THEN NoneV ELSE Some(i)]

NoMetadataFirst == Len(pData) >= 1 /\ IsNone(pData[1].paging)

FirstPageOnly ==
  (pPc = "done" /\ NoMetadataFirst) =>
     pOut = pData[1].records /\ pGen.fetches = <<NoneV>>

NoEarlyEmptyPage(data) == \A i \in 1..(Len(data) - 1) : data[i].records # <<>>

LastPage == Fetch(pData, pGen.fetches[Len(pGen.fetches)])

EdgePage(page) ==
  \/ ~IsNone(page.paging) /\ page.paging[1].count_pages = 0
  \/ page.records = <<>>

EdgeFetched == pGen.started /\ EdgePage(LastPage)

NoRequestAfterEdge ==
  EdgeFetched =>
     /\ ~pGen.more
     /\ Len(pGen.fetches) <= MaxFetches
     /\ (Len(pGen.fetches) = 1 /\ LastPage.records = <<>>) => pOut = <<>>

Listed == AllRecords(rData, Len(rData))

\* What a match on candidate c leaves in the command's variables.
Picked(c) ==
  IF rCmd = "edit" THEN rEnv[ApiField(rScan.kind)] = PyInt(c.id)
  ELSE rEnv[rScan.kind] = PyObj(rScan.kind, c.id)

ListCalls == SelectSeq(rCalls, LAMBDA c : c.fn = ListFn(rScan.kind))

\* C5: a lookup consumes the candidates in listing order and stops at the
\* first whose name equals the name asked for, exactly; it takes that one, and
\* has then fetched the pages up to the one holding it and no page after.
C5_FirstExactMatch ==
  rScan.status # "none" =>
    LET n == rScan.n
        passed == IF rScan.status = "hit" THEN n - 1 ELSE n
    IN /\ n <= Len(Listed)
       /\ \A j \in 1..passed : Listed[j].name # rScan.query
       /\ Len(ListCalls) = Len(rGen.fetches)
       /\ rScan.status = "hit" =>
            /\ Listed[n].name = rScan.query
            /\ Picked(Listed[n])
            /\ rGen.fetches = ExpectedFetches(PageCount(n))
       /\ rScan.status = "running" => Len(rGen.fetches) <= PageCount(n + 1)
       /\ rScan.status = "miss" => n = Len(Listed)

C5_Witness ==
  /\ rCmd = "new" /\ rScan.status = "hit" /\ rScan.n = 1
  /\ Len(Listed) = 3
  /\ Listed[1].name = rScan.query /\ Listed[3].name = rScan.query
  /\ rEnv[rScan.kind] = PyObj(rScan.kind, 1)
  /\ rGen.fetches = <<NoneV>> /\ Len(rData) = 2

Acts == {"start", "edit", "print_projects"}
NoAct == \A i \in 1..Len(rCalls) : rCalls[i].fn \notin Acts

\* C6: a lookup that exhausts its listing prints a message naming the kind and
\* the name asked for and exits with status 1, with nothing started, edited
\* or listed.
C6_NotFoundIsReported ==
  rScan.status = "miss" =>
    /\ rPc = "exit1" /\ rExc = ""
    /\ rEcho = <<NotFound(rScan.kind, rScan.query)>>
    /\ NoAct

BothGiven(kind) ==
  /\ rArgs[IdOption(kind)] \notin {PyNone, Absent}
  /\ rArgs[kind] \notin {PyNone, Absent}

\* C7: for a field given by id and by name, the listing is never asked for,
\* every get call is made with the id given, and what the command acts on is
\* the object or the id that id names.
C7_IdTakesPrecedence ==
  \A k \in Kinds :
    (rPc # "idle" /\ BothGiven(k)) =>
      /\ \A i \in 1..Len(rCalls) :
           /\ rCalls[i].fn # ListFn(k)
           /\ rCalls[i].fn = GetFn(k) => rCalls[i].arg = rArgs[IdOption(k)]
      /\ rPc \in {"started", "listed"} => rEnv[k] = PyObj(k, rArgs[IdOption(k)].n)
      /\ rPc = "edited" => rEnv[ApiField(k)] = rArgs[IdOption(k)]

\* ------------------------------------------------- clock continue's claim
\* The entries of the window the command computed.
Window == IterEntries(cSvc, cSince[1], cUntil[1])
WindowKnown == ~IsNone(cSince) /\ ~IsNone(cUntil)
Ended == cPc \in {"started", "exit1", "crashed"}
Restartable == WindowKnown /\ Window # <<>> /\ Window[Len(Window)].kind = "clock"

====
